---- MODULE Spec2Model ----
(***************************************************************************)
(* A model of the blockchain-p2p node: the proof-of-work hashing helpers   *)
(* (hash_utils.rs), the chain engine (app.rs) and the event handlers that  *)
(* drive it (p2p.rs, main.rs).                                             *)
(*                                                                         *)
(* Strings are sequences of character codes.  Codes 0..15 are the          *)
(* lower-case hex digits '0'..'9','a'..'f', codes 16..21 the upper-case    *)
(* 'A'..'F', and codes from 22 on are characters that are no hex digit     *)
(* (22 'g', 23 'n', 24 's', 25 'i', 26 '!', 27 'z').                       *)
(* Byte strings are sequences of numbers 0..255.                           *)
(***************************************************************************)
EXTENDS Integers, Sequences, FiniteSets, TLC

\* Bounds of the model.
MaxNonce == 4       \* the nonce search is followed up to this nonce
MaxChain == 2       \* the node extends, and receives, chains up to this length
MaxFnChain == 3     \* the chains drawn as arguments have up to this length
MaxAppChain == 4    \* genesis and add_block alone build chains up to this length
MaxResponses == 1   \* the response channel holds up to this many ChainResponses

\* The values Utc::now().timestamp() takes.
Timestamps == {0, 1}

\* Payloads of the "create block <data>" command and of received blocks.
Data == {<<10>>, <<11, 12>>}

----------------------------------------------------------------------------
\* hex crate: encode / decode

\* The value of one hex digit, -1 for a character that is none.
HexVal(c) == IF c \in 0..15 THEN c ELSE IF c \in 16..21 THEN c - 6 ELSE -1

\* hex::encode: two lower-case digits per byte.
hex_encode(bytes) ==
    [i \in 1..(2 * Len(bytes)) |->
        IF i % 2 = 1 THEN bytes[(i + 1) \div 2] \div 16 ELSE bytes[i \div 2] % 16]

\* hex::decode: Err for an odd length or a character that is no hex digit.
hex_decode(s) ==
    IF Len(s) % 2 # 0 \/ (\E i \in 1..Len(s) : HexVal(s[i]) = -1)
    THEN [ok |-> FALSE, bytes |-> <<>>]
    ELSE [ok |-> TRUE,
          bytes |-> [i \in 1..(Len(s) \div 2) |->
                        HexVal(s[2 * i - 1]) * 16 + HexVal(s[2 * i])]]

----------------------------------------------------------------------------
\* hash_utils.rs

DIFFICULTY_PREFIX == <<0, 0>>

\* format!("{:b}", c): the binary digits of a byte, without zero padding.
BitLen(n) ==
    IF n < 2 THEN 1 ELSE IF n < 4 THEN 2 ELSE IF n < 8 THEN 3 ELSE IF n < 16 THEN 4
    ELSE IF n < 32 THEN 5 ELSE IF n < 64 THEN 6 ELSE IF n < 128 THEN 7 ELSE 8

BinDigits(n) == [i \in 1..BitLen(n) |-> (n \div (2 ^ (BitLen(n) - i))) % 2]

\* Bit i (from 1) of a byte string written with eight bits to the byte.
FixedBit(hash, i) == (hash[((i - 1) \div 8) + 1] \div (2 ^ (7 - ((i - 1) % 8)))) % 2

hash_to_binary_padded(hash) == [i \in 1..(8 * Len(hash)) |-> FixedBit(hash, i)]

RECURSIVE hash_to_binary(_)
hash_to_binary(hash) ==
    IF hash = <<>> THEN <<>>
    ELSE BinDigits(Head(hash)) \o hash_to_binary(Tail(hash))

\* str::starts_with
starts_with(s, p) == Len(s) >= Len(p) /\ SubSeq(s, 1, Len(p)) = p

\* A numeric code of a string, as the serialised text enters the digest.
RECURSIVE StrCodeTo(_, _)
StrCodeTo(s, n) ==
    IF n = 0 THEN 7
    ELSE IF n = 1 THEN (7 * 31 + s[1] + 1) % 251
    ELSE ((StrCodeTo(s, n - 2) * 31 + s[n - 1] + 1) * 31 + s[n] + 1) % 251

StrCode(s) == StrCodeTo(s, Len(s))

\* The part of the digest that identifies the hashed fields: a mixed-radix
\* number of the five fields, one-to-one in id, timestamp, data code and nonce.
HashBody(id, timestamp, prevCode, dataCode, nonce) ==
    ((((prevCode * 251 + dataCode) * 8 + (id % 8)) * 4 + (timestamp % 4)) * 8)
        + (nonce % 8)

\* The part of the digest that decides the proof of work: it takes each of its
\* four values once in any four consecutive nonces.
HashLead(id, timestamp, prevCode, dataCode, nonce) ==
    (prevCode + dataCode + id + timestamp + nonce) % 4

\* calculate_hash: SHA-256 of the JSON text of the five fields, scaled down to
\* a 5-byte digest.  It is a function of all five fields; two leading bytes
\* are zero or not as HashLead says, three bytes carry HashBody.
calculate_hash(id, timestamp, previous_hash, data, nonce) ==
    LET prevCode == StrCode(previous_hash)
        dataCode == StrCode(data)
        body == HashBody(id, timestamp, prevCode, dataCode, nonce)
        lead == HashLead(id, timestamp, prevCode, dataCode, nonce)
    IN  << (lead % 2) * (1 + (body % 255)),
           ((lead \div 2) % 2) * (1 + ((body \div 255) % 255)),
           (body \div 65536) % 256,
           (body \div 256) % 256,
           body % 256 >>

\* The test of mine_block's loop body for one nonce.
MineTest(id, timestamp, previous_hash, data, nonce) ==
    starts_with(hash_to_binary(calculate_hash(id, timestamp, previous_hash, data, nonce)),
                DIFFICULTY_PREFIX)

\* mine_block's loop from a given nonce on; ok is FALSE when the search has
\* not returned by MaxNonce.
RECURSIVE MineLoop(_, _, _, _, _)
MineLoop(id, timestamp, previous_hash, data, nonce) ==
    IF MineTest(id, timestamp, previous_hash, data, nonce)
    THEN [ok |-> TRUE, nonce |-> nonce,
          hash |-> hex_encode(calculate_hash(id, timestamp, previous_hash, data, nonce))]
    ELSE IF nonce >= MaxNonce
    THEN [ok |-> FALSE, nonce |-> nonce, hash |-> <<>>]
    ELSE MineLoop(id, timestamp, previous_hash, data, nonce + 1)

\* mine_block with the search started at nonce 1.
mine_block_from1(id, timestamp, previous_hash, data) ==
    MineLoop(id, timestamp, previous_hash, data, 1)

mine_block(id, timestamp, previous_hash, data) ==
    MineLoop(id, timestamp, previous_hash, data, 0)

----------------------------------------------------------------------------
\* block.rs

Block(id, timestamp, previous_hash, data, nonce, hash) ==
    [id |-> id, timestamp |-> timestamp, previous_hash |-> previous_hash,
     data |-> data, nonce |-> nonce, hash |-> hash]

\* Block::new: stamps the block with the current time and mines it.
BlockNew(id, now, previous_hash, data) ==
    LET m == mine_block(id, now, previous_hash, data)
    IN  Block(id, now, previous_hash, data, m.nonce, m.hash)

----------------------------------------------------------------------------
\* app.rs

\* "genesis", "genesis!" and the stored genesis hash (its leading 5 bytes).
GenesisStr == <<22, 14, 23, 14, 24, 25, 24>>
GenesisData == <<22, 14, 23, 14, 24, 25, 24, 26>>
GenesisHash == <<0, 0, 0, 0, 15, 8, 1, 6, 10, 8>>

\* The block App::genesis pushes.
GenesisBlock(now) == Block(0, now, GenesisStr, GenesisData, 2836, GenesisHash)

\* is_block_valid without the comparison of the recomputed hash.
is_block_valid_nohash(block, previous) ==
    IF block.previous_hash # previous.hash
    THEN [ret |-> "false", warn |-> "wrong previous hash"]
    ELSE IF ~hex_decode(block.hash).ok
    THEN [ret |-> "panic", warn |-> "none"]
    ELSE IF ~starts_with(hash_to_binary(hex_decode(block.hash).bytes),
                         DIFFICULTY_PREFIX)
    THEN [ret |-> "false", warn |-> "not the next block"]
    ELSE [ret |-> "true", warn |-> "none"]

\* is_block_valid without the difficulty test.
is_block_valid_nopow(block, previous) ==
    IF block.previous_hash # previous.hash
    THEN [ret |-> "false", warn |-> "wrong previous hash"]
    ELSE IF ~hex_decode(block.hash).ok
    THEN [ret |-> "panic", warn |-> "none"]
    ELSE IF hex_encode(calculate_hash(block.id, block.timestamp, block.previous_hash,
                                      block.data, block.nonce)) # block.hash
    THEN [ret |-> "false", warn |-> "invalid hash"]
    ELSE [ret |-> "true", warn |-> "none"]

\* App::is_block_valid: ret is "true", "false", or "panic" when the expect on
\* hex::decode fails; warn is the warning logged.
is_block_valid(block, previous) ==
    LET decoded == hex_decode(block.hash)
    IN
    IF block.previous_hash # previous.hash
    THEN [ret |-> "false", warn |-> "wrong previous hash"]
    ELSE IF ~decoded.ok
    THEN [ret |-> "panic", warn |-> "none"]
    ELSE IF ~starts_with(hash_to_binary(decoded.bytes), DIFFICULTY_PREFIX)
    THEN [ret |-> "false", warn |-> "not the next block"]
    ELSE IF hex_encode(calculate_hash(block.id, block.timestamp, block.previous_hash,
                                      block.data, block.nonce)) # block.hash
    THEN [ret |-> "false", warn |-> "invalid hash"]
    ELSE [ret |-> "true", warn |-> "none"]

\* App::is_chain_valid: the loop over i, from index i on (1-based here).
RECURSIVE ChainValidFrom(_, _)
ChainValidFrom(chain, i) ==
    IF i > Len(chain) THEN "true"
    ELSE IF i = 1 THEN ChainValidFrom(chain, i + 1)
    ELSE LET r == is_block_valid(chain[i], chain[i - 1]).ret
         IN  IF r = "true" THEN ChainValidFrom(chain, i + 1) ELSE r

is_chain_valid(chain) == ChainValidFrom(chain, 1)

\* choose_chain with > for >= : on equal length the remote chain wins.
choose_chain_strict(local, remote) ==
    LET local_valid == is_chain_valid(local)
        remote_valid == is_chain_valid(remote)
    IN  IF local_valid = "panic" \/ remote_valid = "panic"
        THEN [tag |-> "panic", chain |-> <<>>]
        ELSE IF local_valid = "true" /\ remote_valid = "true"
        THEN IF Len(local) > Len(remote)
             THEN [tag |-> "Ok", chain |-> local]
             ELSE [tag |-> "Ok", chain |-> remote]
        ELSE IF remote_valid = "true" /\ local_valid # "true"
        THEN [tag |-> "Ok", chain |-> remote]
        ELSE IF remote_valid # "true" /\ local_valid = "true"
        THEN [tag |-> "Ok", chain |-> local]
        ELSE [tag |-> "Err", chain |-> <<>>]

\* choose_chain that hands out the remote chain when neither chain is valid.
choose_chain_adopt(local, remote) ==
    LET local_valid == is_chain_valid(local)
        remote_valid == is_chain_valid(remote)
    IN  IF local_valid = "panic" \/ remote_valid = "panic"
        THEN [tag |-> "panic", chain |-> <<>>]
        ELSE IF local_valid = "true" /\ remote_valid = "true"
        THEN IF Len(local) >= Len(remote)
             THEN [tag |-> "Ok", chain |-> local]
             ELSE [tag |-> "Ok", chain |-> remote]
        ELSE IF local_valid = "true"
        THEN [tag |-> "Ok", chain |-> local]
        ELSE [tag |-> "Ok", chain |-> remote]

\* App::choose_chain: tag "Ok" with the chosen chain, "Err", or "panic".
choose_chain(local, remote) ==
    LET local_valid == is_chain_valid(local)
        remote_valid == is_chain_valid(remote)
    IN  IF local_valid = "panic" \/ remote_valid = "panic"
        THEN [tag |-> "panic", chain |-> <<>>]
        ELSE IF local_valid = "true" /\ remote_valid = "true"
        THEN IF Len(local) >= Len(remote)
             THEN [tag |-> "Ok", chain |-> local]
             ELSE [tag |-> "Ok", chain |-> remote]
        ELSE IF remote_valid = "true" /\ local_valid # "true"
        THEN [tag |-> "Ok", chain |-> remote]
        ELSE IF remote_valid # "true" /\ local_valid = "true"
        THEN [tag |-> "Ok", chain |-> local]
        ELSE [tag |-> "Err", chain |-> <<>>]

\* add_block that pushes the block before it validates it.
add_block_pushfirst(chain, block) ==
    IF chain = <<>>
    THEN [tag |-> "Err", msg |-> "There is not initial block", chain |-> chain]
    ELSE LET v == is_block_valid(block, chain[Len(chain)])
         IN  IF v.ret = "panic"
             THEN [tag |-> "panic", msg |-> "Hash decoding error", chain |-> chain]
             ELSE IF v.ret = "true"
             THEN [tag |-> "Ok", msg |-> "none", chain |-> Append(chain, block)]
             ELSE [tag |-> "Err", msg |-> "Could not add block: invalid",
                   chain |-> Append(chain, block)]

\* add_block that takes the first block it is given as the initial block.
add_block_seed(chain, block) ==
    IF chain = <<>>
    THEN [tag |-> "Ok", msg |-> "none", chain |-> <<block>>]
    ELSE LET v == is_block_valid(block, chain[Len(chain)])
         IN  IF v.ret = "panic"
             THEN [tag |-> "panic", msg |-> "Hash decoding error", chain |-> chain]
             ELSE IF v.ret = "true"
             THEN [tag |-> "Ok", msg |-> "none", chain |-> Append(chain, block)]
             ELSE [tag |-> "Err", msg |-> "Could not add block: invalid", chain |-> chain]

\* add_block that pushes without validating.
add_block_unchecked(chain, block) ==
    IF chain = <<>>
    THEN [tag |-> "Err", msg |-> "There is not initial block", chain |-> chain]
    ELSE [tag |-> "Ok", msg |-> "none", chain |-> Append(chain, block)]

\* App::add_block on the chain `chain`: the outcome and the chain afterwards.
add_block(chain, block) ==
    IF chain = <<>>
    THEN [tag |-> "Err", msg |-> "There is not initial block", chain |-> chain]
    ELSE LET v == is_block_valid(block, chain[Len(chain)])
         IN  IF v.ret = "panic"
             THEN [tag |-> "panic", msg |-> "Hash decoding error", chain |-> chain]
             ELSE IF v.ret = "true"
             THEN [tag |-> "Ok", msg |-> "none", chain |-> Append(chain, block)]
             ELSE [tag |-> "Err", msg |-> "Could not add block: invalid", chain |-> chain]

----------------------------------------------------------------------------
\* The node: p2p.rs and the event loop of main.rs

VARIABLES
    blocks,     \* app.blocks, the node's chain
    pc,         \* "idle": the loop awaits an event; "mining": inside mine_block,
                \* called by handle_create_block; "panicked": the process died
    initDone,   \* the Init event was handled
    mine,       \* the arguments and the nonce of the running mine_block call
    last,       \* the event handled last and its outcome
    responses,  \* the channel response_sender / response_recv
    peer,       \* the peer asked for its chain at Init, and the chain it answered with
    call,       \* a call of one function on drawn arguments (SpecFn)
    ret         \* what that call returned (SpecFn)

vars == <<blocks, pc, initDone, mine, last, responses, peer, call, ret>>
fnVars == <<call, ret>>
nodeVars == <<blocks, pc, initDone, mine, last>>
netVars == <<responses, peer>>

NoMine == [id |-> 0, timestamp |-> 0, previous_hash |-> <<>>, data |-> <<>>, nonce |-> 0]
NoCall == [fn |-> "none"]
NoRet == [done |-> FALSE]

\* The record kept in `last`.
Event(op, tag) == [op |-> op, tag |-> tag]

\* PEER_ID, the node's own peer identifier, and the identifier of another peer.
PEER_ID == "self"
OTHER_ID == "other"

\* The peer of the request published at Init: asked, or having answered with
\* the chain it held, the answer in flight; before and after that, none.
NoPeer == [st |-> "none", held |-> <<>>]

\* "zz": a hash that is no hex string; "000": one of odd length.
NotHex == <<27, 27>>
OddHex == <<0, 0, 0>>

\* A hex string with its letters in upper case: hex::decode reads it as the
\* lower-case one.
Upper(s) == [i \in 1..Len(s) |-> IF s[i] \in 10..15 THEN s[i] + 6 ELSE s[i]]

\* The last block of a chain; of the empty chain, the block a peer that has
\* only the genesis block takes it to be.
Tip(chain) == IF chain = <<>> THEN GenesisBlock(0) ELSE chain[Len(chain)]

\* The Block messages a peer may publish when the receiver's last block is
\* `prev`: well-mined successors, and blocks that fail each check.
BlockInputs(prev) ==
    LET id == prev.id + 1
        d0 == <<10>>
        g0 == BlockNew(id, 0, prev.hash, d0)
    IN  {g0,
         BlockNew(id, 1, prev.hash, <<11, 12>>),
         BlockNew(0, 1, prev.hash, d0),
         Block(id, 0, prev.hash, d0, g0.nonce + 1,
               hex_encode(calculate_hash(id, 0, prev.hash, d0, g0.nonce + 1))),
         Block(id, 0, prev.hash, d0, g0.nonce + 4,
               hex_encode(calculate_hash(id, 0, prev.hash, d0, g0.nonce + 4))),
         BlockNew(id, 0, GenesisStr, d0),
         [g0 EXCEPT !.previous_hash = GenesisStr, !.hash = NotHex],
         [g0 EXCEPT !.previous_hash = Upper(prev.hash)],
         [g0 EXCEPT !.hash = Upper(g0.hash)],
         [g0 EXCEPT !.hash = NotHex],
         [g0 EXCEPT !.hash = OddHex],
         [g0 EXCEPT !.hash = GenesisHash],
         [g0 EXCEPT !.data = <<11, 12>>],
         [g0 EXCEPT !.nonce = g0.nonce + 1]}

\* The Block messages delivered to the node: of BlockInputs, two well-mined
\* successors, and one block for each way add_block can end.
NodeBlockInputs(prev) ==
    LET g0 == BlockNew(prev.id + 1, 0, prev.hash, <<10>>)
    IN  {g0,
         BlockNew(0, 1, prev.hash, <<10>>),
         BlockNew(prev.id + 1, 0, GenesisStr, <<10>>),
         [g0 EXCEPT !.hash = NotHex],
         [g0 EXCEPT !.hash = GenesisHash],
         [g0 EXCEPT !.data = <<11, 12>>]}

\* The blocks a peer may put after `prev` in a chain it sends: a well-mined
\* one, one whose hash is no hex string, one whose data was changed.
NextInputs(prev) ==
    LET g0 == BlockNew(prev.id + 1, 0, prev.hash, <<10>>)
    IN  {g0, [g0 EXCEPT !.hash = NotHex], [g0 EXCEPT !.data = <<11, 12>>]}

\* The first blocks of the chains a peer may send: the genesis block, and a
\* block that is not the genesis block.
FirstInputs == {GenesisBlock(0), Block(3, 0, <<1, 2>>, <<10>>, 0, <<10, 11>>)}

\* The chains of up to n blocks built from these blocks.
RECURSIVE ChainInputs(_)
ChainInputs(n) ==
    IF n = 0 THEN {<<>>}
    ELSE IF n = 1 THEN {<<>>} \cup {<<b>> : b \in FirstInputs}
    ELSE LET shorter == ChainInputs(n - 1)
         IN  shorter \cup
             UNION {{Append(c, b) : b \in NextInputs(c[Len(c)])} :
                        c \in {x \in shorter : Len(x) = n - 1}}

\* The chains a peer may send in a ChainResponse: those of ChainInputs in
\* which every pair of blocks before the last pair is valid.
RemoteChains ==
    {c \in ChainInputs(MaxChain) :
        Len(c) <= 2 \/ is_chain_valid(SubSeq(c, 1, Len(c) - 1)) = "true"}

\* struct ChainResponse, and the ChainResponse messages delivered to the node:
\* every chain addressed to it, and some addressed to another peer.
ChainResponse(chain, receiver) == [blocks |-> chain, receiver |-> receiver]

ChainResponses ==
    {ChainResponse(c, PEER_ID) : c \in RemoteChains}
    \cup {ChainResponse(c, "other") : c \in ChainInputs(1)}

\* The chains the asked peer may hold: the longest valid chains of
\* RemoteChains that start with the genesis block, and the chain of a peer
\* that adopted a received genesis block before its own Init.
PeerChains ==
    {c \in RemoteChains :
        /\ Len(c) = MaxChain
        /\ c[1] = GenesisBlock(0)
        /\ is_chain_valid(c) = "true"}
    \cup {<<GenesisBlock(0), GenesisBlock(1)>>}

\* struct LocalChainRequest, a floodsub message (msg.source, msg.data), and
\* the LocalChainRequest messages delivered to the node.
LocalChainRequest(from_peer_id) == [from_peer_id |-> from_peer_id]

Message(source, data) == [source |-> source, data |-> data]

LocalChainRequests ==
    {Message(OTHER_ID, LocalChainRequest(p)) : p \in {PEER_ID, OTHER_ID}}

\* get_list_peers at Init: no peer discovered, or one.
PeerLists == {<<>>, <<OTHER_ID>>}

Init ==
    /\ blocks = <<>>
    /\ pc = "idle"
    /\ initDone = FALSE
    /\ mine = NoMine
    /\ last = Event("none", "none")
    /\ responses = <<>>
    /\ peer = NoPeer
    /\ call = NoCall
    /\ ret = NoRet

\* App::genesis
genesis(chain, now) == Append(chain, GenesisBlock(now))

\* main.rs, EventType::Init: the genesis block is pushed onto the chain, and
\* with a peer discovered a LocalChainRequest naming the last peer of the
\* list is published.
HandleInit(now) ==
    /\ pc = "idle"
    /\ ~initDone
    /\ blocks' = genesis(blocks, now)
    /\ initDone' = TRUE
    /\ last' = Event("genesis", "Ok")
    /\ \E peers \in PeerLists :
          peer' = IF peers = <<>> THEN peer ELSE [st |-> "asked", held |-> <<>>]
    /\ UNCHANGED <<pc, mine, responses, fnVars>>

\* inject_event, a Block message: App::add_block; an Err is logged.  The
\* chain is extended while it is shorter than `cap`.
ReceiveBlockUpTo(block, cap) ==
    /\ pc = "idle"
    /\ \E r \in {add_block(blocks, block)} :
           /\ r.tag = "Ok" => Len(blocks) < cap
           /\ blocks' = r.chain
           /\ pc' = IF r.tag = "panic" THEN "panicked" ELSE "idle"
           /\ last' = Event("add_block", r.tag)
    /\ UNCHANGED <<initDone, mine, netVars, fnVars>>

ReceiveBlock(block) == ReceiveBlockUpTo(block, MaxChain)

\* The answer of the asked peer, while it is in flight to the node.
InFlight ==
    IF peer.st = "answered" THEN {ChainResponse(peer.held, PEER_ID)} ELSE {}

\* inject_event, a ChainResponse message: App::choose_chain when it is
\* addressed to this node; an Err is logged.  A message that is the asked
\* peer's answer is that answer handled.
ReceiveChainResponse(resp) ==
    /\ pc = "idle"
    /\ IF resp.receiver = PEER_ID
       THEN \E r \in {choose_chain(blocks, resp.blocks)} :
                /\ blocks' = IF r.tag = "Ok" THEN r.chain ELSE blocks
                /\ pc' = IF r.tag = "panic" THEN "panicked" ELSE "idle"
                /\ last' = Event("choose_chain", r.tag)
       ELSE /\ last' = Event("not_for_me", "none")
            /\ UNCHANGED <<blocks, pc>>
    /\ peer' = IF resp \in InFlight THEN NoPeer ELSE peer
    /\ UNCHANGED <<initDone, mine, responses, fnVars>>

ReceiveLocalChainRequest_any(msg) ==
    /\ pc = "idle"
    /\ Len(responses) < MaxResponses
    /\ responses' = Append(responses, ChainResponse(blocks, msg.source))
    /\ last' = Event("chain_request", "answered")
    /\ UNCHANGED <<blocks, pc, initDone, mine, peer, fnVars>>

\* inject_event, a LocalChainRequest message: when it names this node, a
\* ChainResponse with a copy of the chain, addressed to the source of the
\* message, is sent into the response channel.
ReceiveLocalChainRequest(msg) ==
    /\ pc = "idle"
    /\ IF msg.data.from_peer_id = PEER_ID
       THEN /\ Len(responses) < MaxResponses
            /\ responses' = Append(responses, ChainResponse(blocks, msg.source))
            /\ last' = Event("chain_request", "answered")
       ELSE /\ responses' = responses
            /\ last' = Event("chain_request", "ignored")
    /\ UNCHANGED <<blocks, pc, initDone, mine, peer, fnVars>>

\* main.rs, EventType::LocalChainResponse: the ChainResponse taken from the
\* response channel is published on the chain topic.
PublishResponse ==
    /\ pc = "idle"
    /\ responses # <<>>
    /\ responses' = Tail(responses)
    /\ last' = Event("chain_response", "published")
    /\ UNCHANGED <<blocks, pc, initDone, mine, peer, fnVars>>

\* The asked peer, a node running the same program, handles the request and
\* answers with the chain it holds.
PeerAnswers(chain) ==
    /\ peer.st = "asked"
    /\ peer' = [st |-> "answered", held |-> chain]
    /\ UNCHANGED <<nodeVars, responses, fnVars>>

\* handle_create_block up to the call of mine_block in Block::new; the expect
\* on blocks.last() panics on an empty chain.
HandleCreateBlock(data, now) ==
    /\ pc = "idle"
    /\ Len(blocks) < MaxChain
    /\ IF blocks = <<>>
       THEN /\ pc' = "panicked"
            /\ mine' = mine
            /\ last' = Event("create_block", "panic")
       ELSE LET latest_block == blocks[Len(blocks)]
            IN  /\ pc' = "mining"
                /\ mine' = [id |-> latest_block.id + 1, timestamp |-> now,
                            previous_hash |-> latest_block.hash, data |-> data,
                            nonce |-> 0]
                /\ last' = Event("create_block", "mining")
    /\ UNCHANGED <<blocks, initDone, netVars, fnVars>>

\* One turn of mine_block's loop that does not return: nonce += 1.
MineStep ==
    /\ pc = "mining"
    /\ ~MineTest(mine.id, mine.timestamp, mine.previous_hash, mine.data, mine.nonce)
    /\ mine.nonce < MaxNonce
    /\ mine' = [mine EXCEPT !.nonce = mine.nonce + 1]
    /\ UNCHANGED <<blocks, pc, initDone, last, netVars, fnVars>>

\* mine_block returns, Block::new builds the block and handle_create_block
\* pushes it onto the chain.
FinishCreateBlock ==
    /\ pc = "mining"
    /\ MineTest(mine.id, mine.timestamp, mine.previous_hash, mine.data, mine.nonce)
    /\ blocks' = Append(blocks,
                        Block(mine.id, mine.timestamp, mine.previous_hash, mine.data,
                              mine.nonce,
                              hex_encode(calculate_hash(mine.id, mine.timestamp,
                                                        mine.previous_hash, mine.data,
                                                        mine.nonce))))
    /\ last' = Event("create_block", "Ok")
    /\ pc' = "idle"
    /\ mine' = NoMine
    /\ UNCHANGED <<initDone, netVars, fnVars>>

Next ==
    \/ \E now \in Timestamps : HandleInit(now)
    \/ \E block \in NodeBlockInputs(Tip(blocks)) : ReceiveBlock(block)
    \/ \E resp \in ChainResponses : ReceiveChainResponse(resp)
    \/ \E data \in Data, now \in Timestamps : HandleCreateBlock(data, now)
    \/ MineStep
    \/ FinishCreateBlock

Spec == Init /\ [][Next]_vars

\* The node with the chain messages: the request published at Init, the
\* asked peer's answer, and the requests the node itself answers.
NextNet ==
    \/ \E now \in Timestamps : HandleInit(now)
    \/ \E resp \in ChainResponses \cup InFlight : ReceiveChainResponse(resp)
    \/ \E msg \in LocalChainRequests : ReceiveLocalChainRequest(msg)
    \/ PublishResponse
    \/ \E chain \in PeerChains : PeerAnswers(chain)

SpecNet == Init /\ [][NextNet]_vars

\* Messages are delivered and handled: the asked peer handles the request,
\* its answer reaches the node's inject_event, and the event loop takes what
\* is in the response channel.
SpecSync ==
    /\ Init
    /\ [][NextNet]_vars
    /\ WF_vars(\E chain \in PeerChains : PeerAnswers(chain))
    /\ WF_vars(\E resp \in InFlight : ReceiveChainResponse(resp))
    /\ WF_vars(PublishResponse)

\* The chain engine alone: genesis and add_block.
NextApp ==
    \/ \E now \in Timestamps : HandleInit(now)
    \/ \E block \in BlockInputs(Tip(blocks)) : ReceiveBlockUpTo(block, MaxAppChain)

SpecApp == Init /\ [][NextApp]_vars

----------------------------------------------------------------------------
\* The functions of hash_utils.rs and app.rs, each called once on arguments
\* drawn from the inputs above.

\* The blocks taken as `previous` in the calls of is_block_valid.
PrevInputs == {GenesisBlock(0), BlockNew(1, 0, GenesisHash, <<10>>)}

IsBlockValidCalls ==
    UNION {{[fn |-> "is_block_valid", block |-> b, previous |-> p] :
                b \in BlockInputs(p)} : p \in PrevInputs}

ChooseChainCalls ==
    {[fn |-> "choose_chain", local |-> l, remote |-> r] :
        l \in ChainInputs(MaxFnChain), r \in ChainInputs(MaxFnChain)}

AddBlockCalls ==
    UNION {{[fn |-> "add_block", chain |-> c, block |-> b] :
                b \in BlockInputs(Tip(c))} : c \in ChainInputs(MaxFnChain)}

MineBlockCalls ==
    [fn : {"mine_block"}, id : 0..3, timestamp : Timestamps,
     previous_hash : {GenesisStr, GenesisHash, NotHex}, data : Data]

\* The digests hash_to_binary is called on: three bytes, each the least, the
\* greatest or one of the bytes in between.
ByteInputs == {0, 1, 2, 5, 128, 255}

HashToBinaryCalls ==
    {[fn |-> "hash_to_binary", hash |-> <<a, b, c>>] :
        a \in ByteInputs, b \in ByteInputs, c \in ByteInputs}

\* A chain whose block i (1-based) had one field overwritten, its hash field
\* left as it was.
Tamper(chain, i, field, value) ==
    [chain EXCEPT ![i] =
        IF field = "previous_hash" THEN [@ EXCEPT !.previous_hash = value]
        ELSE IF field = "data" THEN [@ EXCEPT !.data = value]
        ELSE [@ EXCEPT !.nonce = value]]

TamperValues(field) ==
    IF field = "previous_hash" THEN {GenesisStr, GenesisHash, NotHex}
    ELSE IF field = "data" THEN Data \cup {GenesisData}
    ELSE 0..MaxNonce

\* The calls of is_chain_valid: on a chain as it is (index 0), and on a valid
\* chain with the field `field` of block `index` changed to another value.
IsChainValidCalls ==
    {[fn |-> "is_chain_valid", chain |-> c, orig |-> c, index |-> 0, field |-> "none"] :
        c \in ChainInputs(MaxFnChain)}
    \cup
    UNION {UNION {UNION {
        {[fn |-> "is_chain_valid", chain |-> Tamper(c, i, f, v), orig |-> c,
          index |-> i, field |-> f] : v \in TamperValues(f) \ {c[i][f]}} :
            f \in {"previous_hash", "data", "nonce"}} :
            i \in 1..Len(c)} :
            c \in {x \in ChainInputs(MaxFnChain) : is_chain_valid(x) = "true"}}

InitFn ==
    /\ blocks = <<>>
    /\ pc = "idle"
    /\ initDone = FALSE
    /\ mine = NoMine
    /\ last = Event("none", "none")
    /\ responses = <<>>
    /\ peer = NoPeer
    /\ call \in IsBlockValidCalls \cup IsChainValidCalls \cup ChooseChainCalls
                \cup AddBlockCalls \cup MineBlockCalls \cup HashToBinaryCalls
    /\ ret = NoRet

Return(val) ==
    /\ ~ret.done
    /\ ret' = [done |-> TRUE, val |-> val]
    /\ UNCHANGED <<nodeVars, netVars, call>>

CallIsBlockValid ==
    /\ call.fn = "is_block_valid"
    /\ Return(is_block_valid(call.block, call.previous))

CallIsChainValid ==
    /\ call.fn = "is_chain_valid"
    /\ Return(is_chain_valid(call.chain))

CallChooseChain ==
    /\ call.fn = "choose_chain"
    /\ Return(choose_chain(call.local, call.remote))

CallAddBlock ==
    /\ call.fn = "add_block"
    /\ Return(add_block(call.chain, call.block))

CallMineBlock ==
    /\ call.fn = "mine_block"
    /\ Return(mine_block(call.id, call.timestamp, call.previous_hash, call.data))

CallHashToBinary ==
    /\ call.fn = "hash_to_binary"
    /\ Return(hash_to_binary(call.hash))

NextFn ==
    \/ CallHashToBinary
    \/ CallIsBlockValid
    \/ CallIsChainValid
    \/ CallChooseChain
    \/ CallAddBlock
    \/ CallMineBlock

SpecFn == InitFn /\ [][NextFn]_vars

----------------------------------------------------------------------------
\* Properties

Returned(fn) == ret.done /\ call.fn = fn

\* C1: choose_chain follows the fork-choice table.  When both chains are
\* valid it returns the strictly longer one, and local on equal length; when
\* only remote is valid it returns remote, whatever the lengths; when only
\* local is valid it returns local.  (Valid and not valid are the verdicts
\* "true" and "false" of is_chain_valid.)
C1_ForkChoiceTable ==
    Returned("choose_chain") =>
        LET local == call.local
            remote == call.remote
            lv == is_chain_valid(local)
            rv == is_chain_valid(remote)
        IN  /\ (lv = "true" /\ rv = "true" /\ Len(remote) > Len(local))
                  => ret.val = [tag |-> "Ok", chain |-> remote]
            /\ (lv = "true" /\ rv = "true" /\ Len(remote) <= Len(local))
                  => ret.val = [tag |-> "Ok", chain |-> local]
            /\ (lv = "false" /\ rv = "true")
                  => ret.val = [tag |-> "Ok", chain |-> remote]
            /\ (lv = "true" /\ rv = "false")
                  => ret.val = [tag |-> "Ok", chain |-> local]

\* Two different valid chains of equal length were compared, and local won.
C1_Witness ==
    /\ Returned("choose_chain")
    /\ is_chain_valid(call.local) = "true"
    /\ is_chain_valid(call.remote) = "true"
    /\ Len(call.local) = Len(call.remote)
    /\ Len(call.local) >= 2
    /\ call.local # call.remote
    /\ ret.val.chain = call.local

\* C2: when neither the node's chain nor the received chain is valid, the
\* handling of the ChainResponse ends in choose_chain's Err, and the node's
\* chain is the chain it held before.
C2_NeitherValidKeepsChain ==
    [][(last'.op = "choose_chain" /\ is_chain_valid(blocks) = "false")
          => \A remote \in RemoteChains :
                (is_chain_valid(remote) = "false"
                    /\ ReceiveChainResponse(ChainResponse(remote, PEER_ID)))
                => (last'.tag = "Err" /\ blocks' = blocks /\ pc' = "idle")]_vars

\* The node holds an invalid chain and has just refused a chain.
C2_Witness ==
    /\ last = Event("choose_chain", "Err")
    /\ is_chain_valid(blocks) = "false"
    /\ pc = "idle"

\* C3: add_block on a chain with a last block is all-or-nothing.  If
\* is_block_valid(candidate, last) is true the chain afterwards is the old
\* chain with the candidate appended; if it is false add_block returns the
\* "invalid" Err and the chain is unchanged.
C3_AddBlockAllOrNothing ==
    (Returned("add_block") /\ call.chain # <<>>) =>
        LET v == is_block_valid(call.block, call.chain[Len(call.chain)]).ret
        IN  /\ v = "true" =>
                  ret.val = [tag |-> "Ok", msg |-> "none",
                             chain |-> Append(call.chain, call.block)]
            /\ v = "false" =>
                  ret.val = [tag |-> "Err", msg |-> "Could not add block: invalid",
                             chain |-> call.chain]

\* A candidate that links to the last block but fails a later check was
\* refused, the chain kept.
C3_Witness ==
    /\ Returned("add_block")
    /\ Len(call.chain) >= 2
    /\ call.block.previous_hash = call.chain[Len(call.chain)].hash
    /\ ret.val.tag = "Err"
    /\ ret.val.chain = call.chain

\* C4: add_block on the empty chain fails with the "no initial block" Err for
\* every candidate and leaves the chain empty.
C4_AddBlockBeforeGenesis ==
    (Returned("add_block") /\ call.chain = <<>>) =>
        ret.val = [tag |-> "Err", msg |-> "There is not initial block", chain |-> <<>>]

\* A well-mined block was offered to the empty chain.
C4_Witness ==
    /\ Returned("add_block")
    /\ call.chain = <<>>
    /\ is_block_valid(call.block, GenesisBlock(0)).ret = "true"
    /\ ret.val.tag = "Err"

\* C5: a chain built by genesis on the empty chain and then add_block calls,
\* accepted or refused, passes is_chain_valid.
C5_BuiltChainValid == is_chain_valid(blocks) = "true"

\* The chain grew to full length by add_block, and the last call was refused.
C5_Witness ==
    /\ Len(blocks) = MaxAppChain
    /\ last = Event("add_block", "Err")

\* C6 as claimed: in a valid chain, changing previous_hash, data or nonce of
\* any one block, the block at index 0 included, makes is_chain_valid false.
C6_TamperAnyBlock ==
    (Returned("is_chain_valid") /\ call.index >= 1) => ret.val = "false"

\* C6, amended: the same for every block after the one at index 0.
C6_TamperAfterGenesis ==
    (Returned("is_chain_valid") /\ call.index >= 2) => ret.val = "false"

\* The data of the last block of a valid chain of full length was changed.
C6_Witness ==
    /\ Returned("is_chain_valid")
    /\ call.index = MaxFnChain
    /\ call.field = "data"
    /\ ret.val = "false"

\* The three checks of is_block_valid, each stated on its own.
Linkage(block, previous) == block.previous_hash = previous.hash

ProofOfWork(block) ==
    /\ hex_decode(block.hash).ok
    /\ starts_with(hash_to_binary(hex_decode(block.hash).bytes), DIFFICULTY_PREFIX)

Integrity(block) ==
    block.hash = hex_encode(calculate_hash(block.id, block.timestamp,
                                           block.previous_hash, block.data, block.nonce))

\* C7: is_block_valid accepts a candidate exactly when linkage, proof of work
\* and integrity all hold; a candidate whose stored hash is not the hex of its
\* digest is not accepted, also when linkage and proof of work hold.
C7_BlockValidIffThreeChecks ==
    Returned("is_block_valid") =>
        /\ ret.val.ret = "true" <=>
              (Linkage(call.block, call.previous) /\ ProofOfWork(call.block)
                  /\ Integrity(call.block))
        /\ ~Integrity(call.block) => ret.val.ret # "true"

\* A candidate that links, whose stored hash meets the difficulty but is not
\* the hash of its fields, was rejected.
C7_Witness ==
    /\ Returned("is_block_valid")
    /\ Linkage(call.block, call.previous)
    /\ ProofOfWork(call.block)
    /\ ~Integrity(call.block)
    /\ ret.val.ret = "false"

\* C8: when mine_block returns, the nonce it returns meets the difficulty, no
\* smaller nonce does, and the hash it returns is the hex of that digest.  The
\* nonce is thereby a function of the arguments alone.
C8_MineLeastNonce ==
    (Returned("mine_block") /\ ret.val.ok) =>
        /\ MineTest(call.id, call.timestamp, call.previous_hash, call.data,
                    ret.val.nonce)
        /\ \A m \in 0..(ret.val.nonce - 1) :
              ~MineTest(call.id, call.timestamp, call.previous_hash, call.data, m)
        /\ ret.val.hash =
              hex_encode(calculate_hash(call.id, call.timestamp, call.previous_hash,
                                        call.data, ret.val.nonce))

\* A search that went past three nonces before it returned.
C8_Witness ==
    /\ Returned("mine_block")
    /\ ret.val.ok
    /\ ret.val.nonce = 3

\* C9 as claimed: a received block that links to the last block but whose
\* hash is no hex string gets an outcome of its own, neither accepted nor the
\* "invalid" Err; the chain is unchanged and the node goes on to the next event.
C9_DecodeErrorStaysLocal ==
    [][last'.op = "add_block"
          => \A b \in NodeBlockInputs(Tip(blocks)) :
                (/\ blocks # <<>>
                 /\ b.previous_hash = Tip(blocks).hash
                 /\ ~hex_decode(b.hash).ok
                 /\ ReceiveBlock(b))
                => (last'.tag \notin {"Ok", "Err"} /\ blocks' = blocks /\ pc' = "idle")]_vars

\* The genesis block: id 0 and previous_hash "genesis".
IsGenesis(block) == block.id = 0 /\ block.previous_hash = GenesisStr

\* C10 as claimed: a non-empty chain of the node has the genesis block at
\* index 0 and nowhere else.
C10_GenesisOnlyAtIndex0 ==
    blocks # <<>> =>
        /\ IsGenesis(blocks[1])
        /\ \A i \in 2..Len(blocks) : ~IsGenesis(blocks[i])

\* C11 as claimed: the ids of the node's chain are an increasing index: the
\* block at index 0 has id 0 and every later block has an id strictly greater
\* than its predecessor's.
C11_IdsIncrease ==
    blocks # <<>> =>
        /\ blocks[1].id = 0
        /\ \A i \in 2..Len(blocks) : blocks[i].id > blocks[i - 1].id

\* C12 as claimed: every step that changes the node's chain is genesis,
\* add_block or the adoption of choose_chain's result.
C12_ChainChangedByEngine ==
    [][blocks' # blocks => last'.op \in {"genesis", "add_block", "choose_chain"}]_vars

\* C13 as claimed: while the nonce search of a create-block command is in
\* progress the node can handle a received Block, a ChainResponse, a
\* LocalChainRequest and further input.
C13_HandlesWhileMining ==
    pc = "mining" =>
        /\ ENABLED (\E block \in NodeBlockInputs(Tip(blocks)) : ReceiveBlock(block))
        /\ ENABLED (\E resp \in ChainResponses : ReceiveChainResponse(resp))
        /\ ENABLED (\E msg \in LocalChainRequests : ReceiveLocalChainRequest(msg))
        /\ ENABLED (\E data \in Data, now \in Timestamps : HandleCreateBlock(data, now))

\* The first k bits of a byte string, eight bits to the byte, are all zero.
FirstBitsZero(hash, k) == \A i \in 1..k : FixedBit(hash, i) = 0

\* C14 as claimed: no number k of leading zero bits is what the "00" prefix
\* of the unpadded rendering tests: for every k some digest meets the
\* difficulty without its first k bits being zero, or the other way round.
C14_NoFixedBitCount ==
    Returned("hash_to_binary") =>
        \A k \in 0..(8 * Len(call.hash)) :
            \E c \in HashToBinaryCalls :
                starts_with(hash_to_binary(c.hash), DIFFICULTY_PREFIX)
                    # FirstBitsZero(c.hash, k)

\* C14, amended: the unpadded rendering of a digest starts with "00" exactly
\* when the first 16 bits of the digest, its first two bytes, are all zero.
C14_SixteenZeroBits ==
    Returned("hash_to_binary") =>
        (starts_with(ret.val, DIFFICULTY_PREFIX) <=> FirstBitsZero(call.hash, 16))

\* The digest 00 00 ff was rendered "0" "0" "11111111" and meets the difficulty.
C14_Witness ==
    /\ Returned("hash_to_binary")
    /\ call.hash = <<0, 0, 255>>
    /\ ret.val = <<0, 0, 1, 1, 1, 1, 1, 1, 1, 1>>
    /\ starts_with(ret.val, DIFFICULTY_PREFIX)

\* The check a warning of is_block_valid speaks of: "has wrong previous hash"
\* and "is not the next block after block with id" of the link to the
\* previous block, "has invalid hash" of the stored hash.
CheckNamed(warn) ==
    IF warn \in {"wrong previous hash", "not the next block"} THEN "linkage"
    ELSE IF warn = "invalid hash" THEN "integrity"
    ELSE "none"

\* C15 as claimed: a rejected block's outcome names the first of linkage,
\* proof of work and integrity that failed.
C15_FailureIdentified ==
    (Returned("is_block_valid") /\ ret.val.ret = "false") =>
        CheckNamed(ret.val.warn) =
            IF ~Linkage(call.block, call.previous) THEN "linkage"
            ELSE IF ~ProofOfWork(call.block) THEN "proof of work"
            ELSE "integrity"

\* C16 as claimed: the chain the node holds passes is_chain_valid in every
\* state, whatever the order of Init, create-block, Block and ChainResponse.
C16_NodeChainValid == is_chain_valid(blocks) \notin {"false", "panic"}

\* C17 as claimed: when a create-block input is handled the chain is not
\* empty and the lookup of the latest block does not fail.
C17_CreateBlockFindsLatest ==
    [][(pc = "idle" /\ last'.op = "create_block")
          => (blocks # <<>> /\ last'.tag # "panic" /\ pc' # "panicked")]_vars

\* C18 as claimed: no step makes the node's chain shorter.
C18_LengthNeverDecreases == [][Len(blocks') >= Len(blocks)]_vars

\* C19: chain messages are addressed.  A ChainResponse whose receiver is not
\* this node does not reach choose_chain and leaves the chain unchanged.  A
\* LocalChainRequest never changes the chain; when its from_peer_id is this
\* node's id it adds exactly one ChainResponse to the response channel, with
\* the chain held at that moment and the sender of the request as receiver;
\* otherwise it adds none.
C19_MessagesAddressed ==
    [][/\ \A resp \in {x \in ChainResponses : x.receiver # PEER_ID} :
            ReceiveChainResponse(resp)
                => (blocks' = blocks /\ last'.op # "choose_chain")
       /\ \A msg \in LocalChainRequests :
            ReceiveLocalChainRequest(msg)
                => /\ blocks' = blocks
                   /\ responses' =
                        IF msg.data.from_peer_id = PEER_ID
                        THEN Append(responses, ChainResponse(blocks, msg.source))
                        ELSE responses]_vars

\* The node has just answered a request with its chain of two blocks or more.
C19_Witness ==
    /\ last = Event("chain_request", "answered")
    /\ Len(blocks) >= 2
    /\ responses = <<ChainResponse(blocks, OTHER_ID)>>

\* C20 as claimed: once the peer asked at Init has answered with the chain it
\* held, the node, unless it has died, comes to hold a valid chain at least as
\* long as that chain.
C20_StartupSync ==
    \A c \in PeerChains :
        (peer = [st |-> "answered", held |-> c])
            ~> (pc = "panicked"
                    \/ (is_chain_valid(blocks) = "true" /\ Len(blocks) >= Len(c)))

====
